---- MODULE Spec2Model ----
(***************************************************************************)
(* Model of src/pass/verify_gpu_code.cc: GPUCodeVerifier, the IRVisitor    *)
(* that checks the thread and memory usage of every kernel of a statement  *)
(* tree against six limits, and its driver VerifyGPUCode.                  *)
(*                                                                         *)
(* The depth-first traversal is a state machine over a stack of open       *)
(* nodes; the statement tree is drawn node by node while it is walked, so  *)
(* the behaviours of the specification are the traversals of all trees     *)
(* within the bounds.                                                      *)
(***************************************************************************)
EXTENDS Integers, Sequences, FiniteSets, TLC

(***************************************************************************)
(* 64-bit arithmetic.  TLC's integers are 32 bits wide, so a size_t is a   *)
(* sequence of WordLimbs base-256 digits, least significant first, and an  *)
(* int64_t is a sign and a magnitude of the same shape.                    *)
(***************************************************************************)
LimbBase == 256
WordLimbs == 8
Limbs == 0..(LimbBase - 1)

RECURSIVE LimbOf(_, _)
\* digit i (1 = least significant) of the natural number n
LimbOf(n, i) == IF i = 1 THEN n % LimbBase ELSE LimbOf(n \div LimbBase, i - 1)

\* the natural number n < 2^31 written on k digits
NatN(n, k) == [i \in 1..k |-> LimbOf(n, i)]

\* digit i of a digit sequence, 0 beyond its length
Digit(a, i) == IF i \in DOMAIN a THEN a[i] ELSE 0

RECURSIVE AddCol(_, _, _)
\* column i of a + b: the two digits and the carry out of column i - 1
AddCol(a, b, i) ==
    Digit(a, i) + Digit(b, i) + (IF i = 1 THEN 0 ELSE AddCol(a, b, i - 1) \div LimbBase)

\* a + b on k digits (the carry out of digit k is dropped)
AddN(a, b, k) == [i \in 1..k |-> AddCol(a, b, i) % LimbBase]

RECURSIVE ColSum(_, _, _, _)
\* sum of a[i] * b[k + 1 - i] for i in 1..j: column k of the schoolbook product
ColSum(a, b, k, j) ==
    IF j = 0 THEN 0
    ELSE Digit(a, j) * Digit(b, k + 1 - j) + ColSum(a, b, k, j - 1)

RECURSIVE MulCol(_, _, _)
\* column i of a * b: its products and the carry out of column i - 1
MulCol(a, b, i) ==
    ColSum(a, b, i, IF i < Len(a) THEN i ELSE Len(a))
        + (IF i = 1 THEN 0 ELSE MulCol(a, b, i - 1) \div LimbBase)

\* a * b on k digits (higher digits are dropped)
MulN(a, b, k) == [i \in 1..k |-> MulCol(a, b, i) % LimbBase]

RECURSIVE LeqFrom(_, _, _)
\* a <= b, comparing digits i, i-1, ..., 1
LeqFrom(a, b, i) ==
    IF i = 0 THEN TRUE
    ELSE IF Digit(a, i) # Digit(b, i) THEN Digit(a, i) < Digit(b, i)
    ELSE LeqFrom(a, b, i - 1)

\* a <= b for two digit sequences of any lengths
LeqN(a, b) == LeqFrom(a, b, IF Len(a) > Len(b) THEN Len(a) ELSE Len(b))

\* the element of a set of one element
TheOne(S) == CHOOSE v \in S : TRUE

\* size_t arithmetic: unsigned, modulo 2^64 (an operand is evaluated once,
\* then its digits are read)
SizeAdd(a, b) == TheOne({AddN(x, y, WordLimbs) : x \in {a}, y \in {b}})
SizeMul(a, b) == TheOne({MulN(x, y, WordLimbs) : x \in {a}, y \in {b}})
SizeLeq(a, b) == \E x \in {a}, y \in {b} : LeqN(x, y)
SizeOfNat(n) == NatN(n, WordLimbs)
SizeZero == SizeOfNat(0)
SizeOne == SizeOfNat(1)

\* an int64_t value: sign and magnitude
I64(n) == [neg |-> n < 0, mag |-> NatN(IF n < 0 THEN 0 - n ELSE n, WordLimbs)]
I64_MAX == [neg |-> FALSE, mag |-> [i \in 1..WordLimbs |-> IF i = WordLimbs THEN 127 ELSE 255]]
I64_Pow2_32 == [neg |-> FALSE, mag |-> [i \in 1..WordLimbs |-> IF i = 5 THEN 1 ELSE 0]]

\* static_cast<size_t>(v) of an int64_t v: the two's complement bit pattern
StaticCastSizeT(v) ==
    IF v.neg
    THEN SizeAdd([i \in 1..WordLimbs |-> (LimbBase - 1) - v.mag[i]], SizeOne)
    ELSE v.mag

(***************************************************************************)
(* Inputs: the constraints map and the nodes of the statement tree.  The   *)
(* inputs verified come in families; a run draws its map and its nodes     *)
(* from one family.                                                        *)
(***************************************************************************)
MaxNodes == 4   \* statements with a body in one tree
MaxLiveNodes == 3   \* the same, where termination is checked

LimitNames ==
    {"max_local_memory_per_block", "max_shared_memory_per_block",
     "max_thread_per_block", "max_thread_x", "max_thread_y", "max_thread_z"}

IntImm(v) == [imm |-> "IntImm", value |-> v]
StringImm(str) == [imm |-> "StringImm", value |-> str]
\* an expression that is neither an IntImm nor a StringImm
OtherExpr == [imm |-> "Var"]

\* a Map<std::string, Expr>: a function on the names it holds
EmptyMap == [k \in {} |-> OtherExpr]
MapSet(m, key, e) == [k \in (DOMAIN m) \cup {key} |-> IF k = key THEN e ELSE m[k]]

\* the map that sets every limit to a usual value
UsualLimits ==
    [k \in LimitNames |->
        CASE k = "max_local_memory_per_block" -> IntImm(I64(4096))
          [] k = "max_shared_memory_per_block" -> IntImm(I64(4096))
          [] k = "max_thread_per_block" -> IntImm(I64(256))
          [] k = "max_thread_x" -> IntImm(I64(32))
          [] k = "max_thread_y" -> IntImm(I64(16))
          [] k = "max_thread_z" -> IntImm(I64(16))]

IterVar(name) == [node |-> "IterVar", name_hint |-> name]
Variable(name) == [node |-> "Variable", name_hint |-> name]
ThreadTags == {"threadIdx.x", "threadIdx.y", "threadIdx.z"}
IterVarNames == ThreadTags \cup {"blockIdx.x"}

ProducerConsumer(is_producer) == [kind |-> "ProducerConsumer", is_producer |-> is_producer]
Allocate(buffer_var, count, bytes) ==
    [kind |-> "Allocate", buffer_var |-> buffer_var, count |-> count, bytes |-> bytes]
StorageScope(buffer_var, scope) ==
    [kind |-> "AttrStmt", attr_key |-> "storage_scope",
     node |-> Variable(buffer_var), value |-> StringImm(scope)]
ThreadExtent(node, value) ==
    [kind |-> "AttrStmt", attr_key |-> "thread_extent", node |-> node, value |-> value]

Families == {"threads", "extents", "memory", "negative", "malformed", "mixed"}

\* the constraints maps of a family
ConstraintsOf(f) ==
    CASE f = "threads" ->
            {UsualLimits, MapSet(UsualLimits, "max_thread_per_block", IntImm(I64(255)))}
      [] f = "extents" ->
            {UsualLimits, MapSet(EmptyMap, "max_thread_per_block", IntImm(I64(256)))}
      [] f = "memory" ->
            {MapSet(EmptyMap, "max_shared_memory_per_block", IntImm(I64(4095))),
             MapSet(EmptyMap, "max_shared_memory_per_block", IntImm(I64(4096))),
             MapSet(MapSet(EmptyMap, "max_local_memory_per_block", IntImm(I64(1))),
                    "max_shared_memory_per_block", IntImm(I64(1)))}
      [] f = "negative" ->
            {MapSet(EmptyMap, "max_shared_memory_per_block", IntImm(I64(-1))),
             MapSet(EmptyMap, "max_thread_per_block", IntImm(I64(-1)))}
      [] f = "malformed" ->
            {EmptyMap, MapSet(EmptyMap, "max_thread_x", OtherExpr)}
      [] f = "mixed" -> {EmptyMap, UsualLimits}

\* the ProducerConsumer nodes of a family
ProducerConsumerNodes(f) ==
    IF f \in {"threads", "negative", "malformed"} THEN {ProducerConsumer(TRUE)}
    ELSE {ProducerConsumer(TRUE), ProducerConsumer(FALSE)}

\* its Allocate nodes: 1024 elements of 4 bytes
AllocateNodes(f) ==
    CASE f \in {"memory", "negative", "mixed"} -> {Allocate("A", 1024, 4)}
      [] OTHER -> {}

\* its storage_scope annotations
StorageScopeNodes(f) ==
    CASE f = "memory" -> {StorageScope("A", "local"), StorageScope("A", "shared")}
      [] f = "negative" -> {StorageScope("A", "shared"), StorageScope("A", "global")}
      [] f = "mixed" -> {StorageScope("A", "shared")}
      [] OTHER -> {}

\* its thread_extent annotations
ThreadExtentNodes(f) ==
    CASE f = "threads" ->
            {ThreadExtent(IterVar("threadIdx.x"), IntImm(I64(8))),
             ThreadExtent(IterVar("threadIdx.x"), IntImm(I64(32))),
             ThreadExtent(IterVar("threadIdx.y"), IntImm(I64(8))),
             ThreadExtent(IterVar("threadIdx.z"), IntImm(I64(8)))}
      [] f = "extents" ->
            {ThreadExtent(IterVar("threadIdx.x"), IntImm(I64_Pow2_32)),
             ThreadExtent(IterVar("threadIdx.y"), IntImm(I64_Pow2_32)),
             ThreadExtent(IterVar("blockIdx.x"), IntImm(I64_Pow2_32))}
      [] f = "malformed" ->
            {ThreadExtent(IterVar("threadIdx.x"), IntImm(I64(8))),
             ThreadExtent(Variable("A"), IntImm(I64(8))),
             ThreadExtent(IterVar("threadIdx.x"), OtherExpr),
             ThreadExtent(IterVar("blockIdx.x"), OtherExpr)}
      [] f = "mixed" -> {ThreadExtent(IterVar("threadIdx.x"), IntImm(I64(32)))}
      [] OTHER -> {}

(***************************************************************************)
(* GPUCodeVerifier: the fields of one instance are one record.             *)
(***************************************************************************)
\* a GPUCodeVerifier as its member initializers leave it; the counters and
\* the limits have no initializer and are written by Verify before any read
GPUCodeVerifier ==
    [nest_level_ |-> 0,
     visited_local_buffers_ |-> {},
     visited_shared_buffers_ |-> {},
     visited_threads_ |-> {},
     local_memory_per_block_ |-> SizeZero,
     shared_memory_per_block_ |-> SizeZero,
     thread_per_block_ |-> SizeZero,
     max_local_memory_per_block_ |-> SizeZero,
     max_shared_memory_per_block_ |-> SizeZero,
     max_thread_per_block_ |-> SizeZero,
     max_thread_x_ |-> SizeZero,
     max_thread_y_ |-> SizeZero,
     max_thread_z_ |-> SizeZero,
     valid_ |-> TRUE]

\* GPUCodeVerifier verifier; of VerifyGPUCode: a local object, constructed at
\* every call; left is the object an earlier call worked on, kept as if it
\* were static
NewVerifier_Kept(left) == left

\* GPUCodeVerifier verifier; of VerifyGPUCode: a local object, constructed at
\* every call, whatever object an earlier call left
NewVerifier(left) == GPUCodeVerifier

\* Reset_() that forgets visited_threads_.clear()
Reset_KeepsThreads(s) ==
    [s EXCEPT !.visited_local_buffers_ = {},
              !.visited_shared_buffers_ = {},
              !.local_memory_per_block_ = SizeZero,
              !.shared_memory_per_block_ = SizeZero,
              !.thread_per_block_ = SizeOne]

\* Reset_() that leaves the two memory counters as they are
Reset_KeepsMemory(s) ==
    [s EXCEPT !.visited_local_buffers_ = {},
              !.visited_shared_buffers_ = {},
              !.visited_threads_ = {},
              !.thread_per_block_ = SizeOne]

\* void Reset_()
Reset_(s) ==
    [s EXCEPT !.visited_local_buffers_ = {},
              !.visited_shared_buffers_ = {},
              !.local_memory_per_block_ = SizeZero,
              !.shared_memory_per_block_ = SizeZero,
              !.visited_threads_ = {},
              !.thread_per_block_ = SizeOne]

\* Verify up to its call of Visit: the six casts and Reset_()
Verify(s, lim) ==
    Reset_([s EXCEPT
        !.max_local_memory_per_block_ = StaticCastSizeT(lim["max_local_memory_per_block"]),
        !.max_shared_memory_per_block_ = StaticCastSizeT(lim["max_shared_memory_per_block"]),
        !.max_thread_per_block_ = StaticCastSizeT(lim["max_thread_per_block"]),
        !.max_thread_x_ = StaticCastSizeT(lim["max_thread_x"]),
        !.max_thread_y_ = StaticCastSizeT(lim["max_thread_y"]),
        !.max_thread_z_ = StaticCastSizeT(lim["max_thread_z"])])

\* the entry of a ProducerConsumer that resets at every nest level
EnterProducerConsumer_AlwaysResets(s, op) ==
    LET s1 == Reset_(s)
    IN  IF op.is_producer THEN [s1 EXCEPT !.nest_level_ = @ + 1] ELSE s1

\* the entry of a ProducerConsumer that raises the nest level for a consumer
\* as well
EnterProducerConsumer_AlwaysNests(s, op) ==
    LET s1 == IF s.nest_level_ = 0 THEN Reset_(s) ELSE s
    IN  [s1 EXCEPT !.nest_level_ = @ + 1]

\* Visit_(const ProducerConsumer*) up to its call of IRVisitor::Visit_
EnterProducerConsumer(s, op) ==
    LET s1 == IF s.nest_level_ = 0 THEN Reset_(s) ELSE s
    IN  IF op.is_producer THEN [s1 EXCEPT !.nest_level_ = @ + 1] ELSE s1

\* the three checks at the exit of a kernel
KernelChecks(s) ==
    /\ SizeLeq(s.thread_per_block_, s.max_thread_per_block_)
    /\ SizeLeq(s.local_memory_per_block_, s.max_local_memory_per_block_)
    /\ SizeLeq(s.shared_memory_per_block_, s.max_shared_memory_per_block_)

\* the exit of a kernel that assigns the checks to valid_ instead of and-ing
ExitProducerConsumer_Assigns(s, op) ==
    LET s1 == IF op.is_producer THEN [s EXCEPT !.nest_level_ = @ - 1] ELSE s
    IN  IF s1.nest_level_ = 0
        THEN [s1 EXCEPT !.valid_ = KernelChecks(s1)]
        ELSE s1

\* Visit_(const ProducerConsumer*) after IRVisitor::Visit_ has returned
ExitProducerConsumer(s, op) ==
    LET s1 == IF op.is_producer THEN [s EXCEPT !.nest_level_ = @ - 1] ELSE s
    IN  IF s1.nest_level_ = 0
        THEN [s1 EXCEPT !.valid_ = @ /\ KernelChecks(s1)]
        ELSE s1

\* size * op->type.bytes(), size the size_t of constant_allocation_size()
AllocationBytes(op) == SizeMul(SizeOfNat(op.count), SizeOfNat(op.bytes))

\* the accounting of an allocation that takes every buffer not local for shared
ExitAllocate_ElseShared(s, op) ==
    IF op.buffer_var \in s.visited_local_buffers_
    THEN [s EXCEPT !.local_memory_per_block_ = SizeAdd(@, AllocationBytes(op))]
    ELSE [s EXCEPT !.shared_memory_per_block_ = SizeAdd(@, AllocationBytes(op))]

\* the accounting of an allocation that looks into the shared set first
ExitAllocate_SharedFirst(s, op) ==
    IF op.buffer_var \in s.visited_shared_buffers_
    THEN [s EXCEPT !.shared_memory_per_block_ = SizeAdd(@, AllocationBytes(op))]
    ELSE IF op.buffer_var \in s.visited_local_buffers_
    THEN [s EXCEPT !.local_memory_per_block_ = SizeAdd(@, AllocationBytes(op))]
    ELSE s

\* Visit_(const Allocate*) after IRVisitor::Visit_ has returned
ExitAllocate(s, op) ==
    IF op.buffer_var \in s.visited_local_buffers_
    THEN [s EXCEPT !.local_memory_per_block_ = SizeAdd(@, AllocationBytes(op))]
    ELSE IF op.buffer_var \in s.visited_shared_buffers_
    THEN [s EXCEPT !.shared_memory_per_block_ = SizeAdd(@, AllocationBytes(op))]
    ELSE s

\* Visit_(const Allocate*) that accounts the allocation before its body
EnterAllocate_Accounts(s, op) == ExitAllocate(s, op)

\* Visit_(const Allocate*) up to its call of IRVisitor::Visit_, its first
\* statement
EnterAllocate(s, op) == s

\* the per-dimension check with < for <=
DimensionCheck_Strict(s, name, length) ==
    IF name = "threadIdx.x" THEN ~SizeLeq(s.max_thread_x_, length)
    ELSE IF name = "threadIdx.y" THEN ~SizeLeq(s.max_thread_y_, length)
    ELSE IF name = "threadIdx.z" THEN ~SizeLeq(s.max_thread_z_, length)
    ELSE TRUE

\* the per-dimension check of a thread extent
DimensionCheck(s, name, length) ==
    IF name = "threadIdx.x" THEN SizeLeq(length, s.max_thread_x_)
    ELSE IF name = "threadIdx.y" THEN SizeLeq(length, s.max_thread_y_)
    ELSE IF name = "threadIdx.z" THEN SizeLeq(length, s.max_thread_z_)
    ELSE TRUE

\* the recording of a thread extent without the visited_threads_ test
RecordThreadExtent_EveryTime(s, name, extent) ==
    IF name \in ThreadTags
    THEN LET length == StaticCastSizeT(extent)
         IN  [s EXCEPT !.visited_threads_ = @ \cup {name},
                       !.thread_per_block_ = SizeMul(@, length),
                       !.valid_ = @ /\ DimensionCheck(s, name, length)]
    ELSE s

\* the recording of a thread extent without the test of the name
RecordThreadExtent_AnyName(s, name, extent) ==
    IF name \notin s.visited_threads_
    THEN LET length == StaticCastSizeT(extent)
         IN  [s EXCEPT !.visited_threads_ = @ \cup {name},
                       !.thread_per_block_ = SizeMul(@, length),
                       !.valid_ = @ /\ DimensionCheck(s, name, length)]
    ELSE s

\* Visit_(const AttrStmt*), attr::thread_extent, once var and extent are read:
\* name is var's name_hint and extent the IntImm's value
RecordThreadExtent(s, name, extent) ==
    IF name \in ThreadTags /\ name \notin s.visited_threads_
    THEN LET length == StaticCastSizeT(extent)
         IN  [s EXCEPT !.visited_threads_ = @ \cup {name},
                       !.thread_per_block_ = SizeMul(@, length),
                       !.valid_ = @ /\ DimensionCheck(s, name, length)]
    ELSE s

\* Visit_(const AttrStmt*), attr::storage_scope
RecordStorageScope(s, op) ==
    IF op.value.value = "local"
    THEN [s EXCEPT !.visited_local_buffers_ = @ \cup {op.node.name_hint}]
    ELSE IF op.value.value = "shared"
    THEN [s EXCEPT !.visited_shared_buffers_ = @ \cup {op.node.name_hint}]
    ELSE s

\* the reading of a thread_extent annotation whose CHECK always fails
ThreadExtentOutcomes_CheckFails(op) == {[end |-> "fatal"]}

\* What reading var and extent of a thread_extent annotation can do.
\* op->node.as<IterVarNode>() is null for a node that is no IterVar, and
\* ->var then reads through the null pointer: undefined behaviour, which
\* either ends the process or yields some variable.  CHECK(extent) raises
\* the internal error when the value is no IntImm.
ThreadExtentOutcomes(op) ==
    LET names == IF op.node.node = "IterVar" THEN {op.node.name_hint} ELSE IterVarNames
        read == IF op.value.imm = "IntImm"
                THEN {[end |-> "ok", name |-> n, extent |-> op.value.value] : n \in names}
                ELSE {[end |-> "fatal"]}
    IN  read \cup (IF op.node.node = "IterVar" THEN {} ELSE {[end |-> "crashed"]})

\* get_int(key, def) of VerifyGPUCode: the values it can return; "crashed"
\* stands for the process ending in the read through the null pointer that
\* as<IntImm>() returns for an entry that is no IntImm
GarbageInts == {I64(0), I64_MAX}
\* get_int that returns 0, not def, for an absent key
get_int_ZeroDefault(map, key, def) ==
    IF key \in DOMAIN map
    THEN IF map[key].imm = "IntImm"
         THEN {[end |-> "ok", value |-> map[key].value]}
         ELSE {[end |-> "crashed"]} \cup {[end |-> "ok", value |-> g] : g \in GarbageInts}
    ELSE {[end |-> "ok", value |-> I64(0)]}

get_int(map, key, def) ==
    IF key \in DOMAIN map
    THEN IF map[key].imm = "IntImm"
         THEN {[end |-> "ok", value |-> map[key].value]}
         ELSE {[end |-> "crashed"]} \cup {[end |-> "ok", value |-> g] : g \in GarbageInts}
    ELSE {[end |-> "ok", value |-> def]}

\* the six get_int calls of VerifyGPUCode, in their order
LimitOrder ==
    <<"max_local_memory_per_block", "max_shared_memory_per_block",
      "max_thread_per_block", "max_thread_x", "max_thread_y", "max_thread_z">>

RECURSIVE ResolveFrom(_, _, _)
\* the outcomes of the get_int calls i, i+1, ... given the limits read so far
ResolveFrom(map, i, lim) ==
    IF i > Len(LimitOrder) THEN {[end |-> "ok", limits |-> lim]}
    ELSE UNION {IF r.end = "crashed" THEN {[end |-> "crashed"]}
                ELSE ResolveFrom(map, i + 1, MapSet(lim, LimitOrder[i], r.value)) :
                r \in get_int(map, LimitOrder[i], I64_MAX)}

\* the limits VerifyGPUCode passes to Verify, or the crash on the way
ResolveLimits(map) == ResolveFrom(map, 1, [k \in {} |-> I64_MAX])

(***************************************************************************)
(* Mathematical integers (a sign and a magnitude of any length), in which  *)
(* the bounds of the specification are stated.                             *)
(***************************************************************************)
IsZeroN(a) == \A i \in DOMAIN a : a[i] = 0

\* a <= b
MathLeqValues(a, b) ==
    IF IsZeroN(a.mag) /\ IsZeroN(b.mag) THEN TRUE
    ELSE IF a.neg /\ ~IsZeroN(a.mag)
         THEN IF b.neg /\ ~IsZeroN(b.mag) THEN LeqN(b.mag, a.mag) ELSE TRUE
         ELSE IF b.neg /\ ~IsZeroN(b.mag) THEN FALSE ELSE LeqN(a.mag, b.mag)
MathLeq(a, b) == \E x \in {a}, y \in {b} : MathLeqValues(x, y)

\* a * b, exactly
MathMul(a, b) ==
    TheOne({[neg |-> x.neg # y.neg, mag |-> MulN(x.mag, y.mag, Len(x.mag) + Len(y.mag))] :
            x \in {a}, y \in {b}})

RECURSIVE MathProduct(_)
\* the product of the values of a function (1 for the empty function)
MathProduct(f) ==
    IF DOMAIN f = {} THEN I64(1)
    ELSE LET n == CHOOSE m \in DOMAIN f : TRUE
         IN  MathMul(f[n], MathProduct([m \in (DOMAIN f) \ {n} |-> f[m]]))

(***************************************************************************)
(* Bookkeeping about the tree walked so far, kept for the tree as a whole  *)
(* and for every open kernel (a ProducerConsumer entered at nest level 0). *)
(* It records what the tree holds, in mathematical integers.               *)
(***************************************************************************)
EmptySummary ==
    [nodes |-> 0,           \* statements with a body entered
     markers |-> 0,         \* ProducerConsumer nodes among them
     decls |-> 0,           \* well-formed threadIdx.x/y/z extents among them
     thr |-> [n \in {} |-> I64(0)],  \* the first extent of each such name
     loc |-> 0,             \* bytes of the allocations accounted as local
     sh |-> 0,              \* bytes of the allocations accounted as shared
     unclassified |-> 0,    \* allocations accounted as neither
     malformed |-> 0]       \* thread_extent annotations that are malformed

IsMalformed(op) ==
    op.kind = "AttrStmt" /\ op.attr_key = "thread_extent"
    /\ (op.node.node # "IterVar" \/ op.value.imm # "IntImm")

IsThreadDecl(op) ==
    op.kind = "AttrStmt" /\ op.attr_key = "thread_extent" /\ ~IsMalformed(op)
    /\ op.node.name_hint \in ThreadTags

\* the summary after a statement with a body is entered
NoteEnter(sum, op) ==
    [sum EXCEPT
        !.nodes = @ + 1,
        !.markers = @ + (IF op.kind = "ProducerConsumer" THEN 1 ELSE 0),
        !.malformed = @ + (IF IsMalformed(op) THEN 1 ELSE 0),
        !.decls = @ + (IF IsThreadDecl(op) THEN 1 ELSE 0),
        !.thr = IF IsThreadDecl(op) /\ op.node.name_hint \notin DOMAIN @
                THEN MapSet(@, op.node.name_hint, op.value.value) ELSE @]

\* the summary after an allocation is accounted by a verifier in state s
NoteAllocate(sum, s, op) ==
    IF op.buffer_var \in s.visited_local_buffers_
    THEN [sum EXCEPT !.loc = @ + op.count * op.bytes]
    ELSE IF op.buffer_var \in s.visited_shared_buffers_
    THEN [sum EXCEPT !.sh = @ + op.count * op.bytes]
    ELSE [sum EXCEPT !.unclassified = @ + 1]

\* the limit of a thread dimension
DimensionLimit(name) ==
    CASE name = "threadIdx.x" -> "max_thread_x"
      [] name = "threadIdx.y" -> "max_thread_y"
      [] name = "threadIdx.z" -> "max_thread_z"

\* the threads of a kernel are within the limits lim
ThreadsWithin(sum, lim) ==
    /\ MathLeq(MathProduct(sum.thr), lim["max_thread_per_block"])
    /\ \A n \in DOMAIN sum.thr : MathLeq(sum.thr[n], lim[DimensionLimit(n)])

\* the memory of a kernel is within the limits lim
MemoryWithin(sum, lim) ==
    /\ MathLeq(I64(sum.loc), lim["max_local_memory_per_block"])
    /\ MathLeq(I64(sum.sh), lim["max_shared_memory_per_block"])

\* a kernel is within the limits lim
KernelWithin(sum, lim) == ThreadsWithin(sum, lim) /\ MemoryWithin(sum, lim)

(***************************************************************************)
(* The state.                                                              *)
(***************************************************************************)
VARIABLES
    family,       \* the family of inputs this run draws from
    constraints,  \* the Map<std::string, Expr> given to VerifyGPUCode
    pc,           \* "start", "visit", "returned", "fatal" (a CHECK failed),
                  \* "crashed" (undefined behaviour ended the process)
    limits,       \* the six int64_t limits VerifyGPUCode read
    verifier,     \* the GPUCodeVerifier
    stack,        \* the open statements, the root's holder first
    budget,       \* statements with a body the tree may still get
    result,       \* what VerifyGPUCode returned
    alone,        \* a second GPUCodeVerifier, started afresh at every kernel
    twin,         \* a third one, given the map with the absent limits filled in
    solo,         \* a fourth one, in a process that makes this call only
    first,        \* how the earlier call of VerifyGPUCode ended, "none" in the first
    tree,         \* the summary of the whole tree
    kernels,      \* the kernels left so far
    whole,        \* the kernel that is the whole tree, once it is left
    within,       \* every kernel left so far is within the limits read
    failed        \* a check of the verifier has evaluated to false

vars == <<family, constraints, pc, limits, verifier, stack, budget, result, alone, twin,
          solo, first, tree, kernels, whole, within, failed>>

\* the value of whole while the tree is not known to be one kernel
NoKernel == [kernel |-> FALSE, is_producer |-> FALSE, sum |-> EmptySummary]

Frame(op, todo, kernel) == [op |-> op, todo |-> todo, kernel |-> kernel, sum |-> EmptySummary]
RootFrame == Frame([kind |-> "Root"], 1, FALSE)
Top == stack[Len(stack)]

\* the map with every absent limit set to INT64_MAX
FillAbsent(map) ==
    [k \in LimitNames |-> IF k \in DOMAIN map THEN map[k] ELSE IntImm(I64_MAX)]

\* the state VerifyGPUCode is called in, for trees of at most n statements
\* with a body
Start(n) ==
    /\ family \in Families
    /\ constraints \in ConstraintsOf(family)
    /\ pc = "start"
    /\ limits = [k \in LimitNames |-> I64(0)]
    /\ verifier = GPUCodeVerifier
    /\ alone = GPUCodeVerifier
    /\ twin = GPUCodeVerifier
    /\ solo = GPUCodeVerifier
    /\ first = "none"
    /\ stack = <<>>
    /\ budget = n
    /\ result = TRUE
    /\ tree = EmptySummary
    /\ kernels = 0
    /\ whole = NoKernel
    /\ within = TRUE
    /\ failed = FALSE

Init == Start(MaxNodes)

(***************************************************************************)
(* The operations.                                                         *)
(***************************************************************************)
\* the limits the twin reads: those of the map with the absent limits filled
\* in, an entry that is no IntImm being read as the verifier read it
TwinLimits(lim) ==
    [k \in LimitNames |->
        IF k \in DOMAIN constraints THEN lim[k]
        ELSE (CHOOSE r \in get_int(FillAbsent(constraints), k, I64_MAX) : TRUE).value]

\* VerifyGPUCode up to Verify's call of Visit, its verifier constructed: the
\* six get_int calls, the casts and the first Reset_()
VerifyGPUCode ==
    /\ pc = "start"
    /\ \E r \in ResolveLimits(constraints) :
         IF r.end = "crashed"
         THEN /\ pc' = "crashed"
              /\ UNCHANGED <<limits, verifier, alone, twin, solo, stack>>
         ELSE /\ pc' = "visit"
              /\ limits' = r.limits
              /\ verifier' = Verify(verifier, r.limits)
              /\ alone' = Verify(GPUCodeVerifier, r.limits)
              /\ twin' = Verify(GPUCodeVerifier, TwinLimits(r.limits))
              /\ solo' = Verify(GPUCodeVerifier, r.limits)
              /\ stack' = <<RootFrame>>
    /\ UNCHANGED <<family, constraints, budget, result, first, tree, kernels, whole, within, failed>>

\* a child of the top statement can be visited
CanVisit == pc = "visit" /\ stack # <<>> /\ Top.todo > 0
\* and it can be a statement with a body
CanVisitBody == CanVisit /\ budget > 0

\* the stack once the top statement has handed out one child
Handed == [stack EXCEPT ![Len(stack)].todo = @ - 1]

\* the summaries of the open kernels after a statement is entered
Entered(stk, op) ==
    [i \in DOMAIN stk |->
        IF stk[i].kernel THEN [stk[i] EXCEPT !.sum = NoteEnter(@, op)] ELSE stk[i]]

\* the summaries of the open kernels after an allocation is accounted
Accounted(stk, s, op) ==
    [i \in DOMAIN stk |->
        IF stk[i].kernel THEN [stk[i] EXCEPT !.sum = NoteAllocate(@, s, op)] ELSE stk[i]]

\* Visit_(const ProducerConsumer*), to its call of IRVisitor::Visit_(op)
VisitProducerConsumer ==
    /\ CanVisitBody
    /\ \E op \in ProducerConsumerNodes(family) :
         /\ verifier' = EnterProducerConsumer(verifier, op)
         /\ alone' = IF verifier.nest_level_ = 0
                      THEN EnterProducerConsumer(Verify(GPUCodeVerifier, limits), op)
                      ELSE EnterProducerConsumer(alone, op)
         /\ twin' = EnterProducerConsumer(twin, op)
         /\ solo' = EnterProducerConsumer(solo, op)
         /\ stack' = Append(Entered(Handed, op), Frame(op, 1, verifier.nest_level_ = 0))
         /\ tree' = NoteEnter(tree, op)
    /\ budget' = budget - 1
    /\ UNCHANGED <<family, constraints, pc, limits, result, first, kernels, whole, within, failed>>

\* Visit_(const ProducerConsumer*), from the return of IRVisitor::Visit_(op)
LeaveProducerConsumer ==
    /\ pc = "visit" /\ stack # <<>> /\ Top.todo = 0
    /\ Top.op.kind = "ProducerConsumer"
    /\ verifier' = ExitProducerConsumer(verifier, Top.op)
    /\ alone' = ExitProducerConsumer(alone, Top.op)
    /\ twin' = ExitProducerConsumer(twin, Top.op)
    /\ solo' = ExitProducerConsumer(solo, Top.op)
    /\ failed' = (failed \/ (verifier'.nest_level_ = 0 /\ ~KernelChecks(verifier)))
    /\ kernels' = IF Top.kernel THEN kernels + 1 ELSE kernels
    /\ whole' = IF Len(stack) = 2
                THEN [kernel |-> TRUE, is_producer |-> Top.op.is_producer, sum |-> Top.sum]
                ELSE whole
    /\ within' = (within /\ (Top.kernel => KernelWithin(Top.sum, limits)))
    /\ stack' = SubSeq(stack, 1, Len(stack) - 1)
    /\ UNCHANGED <<family, constraints, pc, limits, budget, result, first, tree>>

\* Visit_(const Allocate*), to its call of IRVisitor::Visit_(op)
VisitAllocate ==
    /\ CanVisitBody
    /\ \E op \in AllocateNodes(family) :
         /\ verifier' = EnterAllocate(verifier, op)
         /\ alone' = EnterAllocate(alone, op)
         /\ twin' = EnterAllocate(twin, op)
         /\ solo' = EnterAllocate(solo, op)
         /\ stack' = Append(Entered(Handed, op), Frame(op, 1, FALSE))
         /\ tree' = NoteEnter(tree, op)
    /\ budget' = budget - 1
    /\ UNCHANGED <<family, constraints, pc, limits, result, first, kernels, whole, within, failed>>

\* Visit_(const Allocate*), from the return of IRVisitor::Visit_(op)
LeaveAllocate ==
    /\ pc = "visit" /\ stack # <<>> /\ Top.todo = 0
    /\ Top.op.kind = "Allocate"
    /\ verifier' = ExitAllocate(verifier, Top.op)
    /\ alone' = ExitAllocate(alone, Top.op)
    /\ twin' = ExitAllocate(twin, Top.op)
    /\ solo' = ExitAllocate(solo, Top.op)
    /\ stack' = Accounted(SubSeq(stack, 1, Len(stack) - 1), verifier, Top.op)
    /\ tree' = NoteAllocate(tree, verifier, Top.op)
    /\ UNCHANGED <<family, constraints, pc, limits, budget, result, first, kernels, whole, within, failed>>

\* Visit_(const AttrStmt*) of a storage_scope annotation, to IRVisitor::Visit_(op)
VisitStorageScope ==
    /\ CanVisitBody
    /\ \E op \in StorageScopeNodes(family) :
         /\ verifier' = RecordStorageScope(verifier, op)
         /\ alone' = RecordStorageScope(alone, op)
         /\ twin' = RecordStorageScope(twin, op)
         /\ solo' = RecordStorageScope(solo, op)
         /\ stack' = Append(Entered(Handed, op), Frame(op, 1, FALSE))
         /\ tree' = NoteEnter(tree, op)
    /\ budget' = budget - 1
    /\ UNCHANGED <<family, constraints, pc, limits, result, first, kernels, whole, within, failed>>

\* Visit_(const AttrStmt*) of a thread_extent annotation, to IRVisitor::Visit_(op)
VisitThreadExtent ==
    /\ CanVisitBody
    /\ \E op \in ThreadExtentNodes(family) : \E r \in ThreadExtentOutcomes(op) :
         /\ tree' = NoteEnter(tree, op)
         /\ IF r.end = "ok"
            THEN /\ verifier' = RecordThreadExtent(verifier, r.name, r.extent)
                 /\ alone' = RecordThreadExtent(alone, r.name, r.extent)
                 /\ twin' = RecordThreadExtent(twin, r.name, r.extent)
                 /\ solo' = RecordThreadExtent(solo, r.name, r.extent)
                 /\ failed' = (failed \/ (/\ r.name \in ThreadTags
                                           /\ r.name \notin verifier.visited_threads_
                                           /\ ~DimensionCheck(verifier, r.name,
                                                               StaticCastSizeT(r.extent))))
                 /\ stack' = Append(Entered(Handed, op), Frame(op, 1, FALSE))
                 /\ pc' = pc
            ELSE /\ pc' = r.end
                 /\ stack' = Entered(Handed, op)
                 /\ UNCHANGED <<verifier, alone, twin, solo, failed>>
    /\ budget' = budget - 1
    /\ UNCHANGED <<family, constraints, limits, result, first, kernels, whole, within>>

\* Visit_(const AttrStmt*), from the return of IRVisitor::Visit_(op)
LeaveAttrStmt ==
    /\ pc = "visit" /\ stack # <<>> /\ Top.todo = 0
    /\ Top.op.kind = "AttrStmt"
    /\ stack' = SubSeq(stack, 1, Len(stack) - 1)
    /\ UNCHANGED <<family, constraints, pc, limits, verifier, alone, twin, solo, budget, result, first,
                   tree, kernels, whole, within, failed>>

\* IRVisitor::Visit_ of a Block: its two statements are visited in turn
VisitBlock ==
    /\ CanVisitBody
    /\ stack' = Append(Entered(Handed, [kind |-> "Block"]), Frame([kind |-> "Block"], 2, FALSE))
    /\ tree' = NoteEnter(tree, [kind |-> "Block"])
    /\ budget' = budget - 1
    /\ UNCHANGED <<family, constraints, pc, limits, verifier, alone, twin, solo, result, first, kernels, whole, within, failed>>

LeaveBlock ==
    /\ pc = "visit" /\ stack # <<>> /\ Top.todo = 0
    /\ Top.op.kind = "Block"
    /\ stack' = SubSeq(stack, 1, Len(stack) - 1)
    /\ UNCHANGED <<family, constraints, pc, limits, verifier, alone, twin, solo, budget, result, first,
                   tree, kernels, whole, within, failed>>

\* IRVisitor::Visit_ of a statement without a body (an Evaluate, a Store)
VisitLeaf ==
    /\ CanVisit
    /\ stack' = Handed
    /\ UNCHANGED <<family, constraints, pc, limits, verifier, alone, twin, solo, budget, result, first,
                   tree, kernels, whole, within, failed>>

\* Verify, from the return of Visit: return valid_
Return ==
    /\ pc = "visit" /\ stack # <<>> /\ Top.todo = 0
    /\ Top.op.kind = "Root"
    /\ pc' = "returned"
    /\ result' = verifier.valid_
    /\ stack' = <<>>
    /\ UNCHANGED <<family, constraints, limits, verifier, alone, twin, solo, budget, first,
                   tree, kernels, whole, within, failed>>

\* VerifyGPUCode is called once more, after a call that returned or that
\* raised the internal error: the earlier call's verifier is gone and a new
\* one is constructed; the statements of both trees share the budget
CallAgain ==
    /\ pc \in {"returned", "fatal"} /\ first = "none"
    /\ first' = IF pc = "fatal" THEN "fatal" ELSE IF result THEN "true" ELSE "false"
    /\ pc' = "start"
    /\ verifier' = NewVerifier(verifier)
    /\ alone' = GPUCodeVerifier
    /\ twin' = GPUCodeVerifier
    /\ solo' = GPUCodeVerifier
    /\ limits' = [k \in LimitNames |-> I64(0)]
    /\ stack' = <<>>
    /\ result' = TRUE
    /\ tree' = EmptySummary
    /\ kernels' = 0
    /\ whole' = NoKernel
    /\ within' = TRUE
    /\ failed' = FALSE
    /\ UNCHANGED <<family, constraints, budget>>

Next ==
    \/ VerifyGPUCode
    \/ CallAgain
    \/ VisitProducerConsumer
    \/ LeaveProducerConsumer
    \/ VisitAllocate
    \/ LeaveAllocate
    \/ VisitStorageScope
    \/ VisitThreadExtent
    \/ LeaveAttrStmt
    \/ VisitBlock
    \/ LeaveBlock
    \/ VisitLeaf
    \/ Return

Spec == Init /\ [][Next]_vars

\* The program is sequential and nothing blocks it: a step that can be taken
\* is taken.
FairSpec == Start(MaxLiveNodes) /\ [][Next]_vars /\ WF_vars(Next)

(***************************************************************************)
(* The properties.                                                         *)
(***************************************************************************)
\* C1: if VerifyGPUCode returns true, every kernel of the tree is within the
\* six limits: the product of its thread extents, each extent, and the bytes
\* of its local and of its shared allocations.
C1_TrueMeansWithin == (pc = "returned" /\ result) => within

\* the input met so far is malformed: a thread_extent annotation whose node
\* is no IterVar or whose value is no IntImm, or a limit that is no IntImm
MalformedInput ==
    \/ tree.malformed > 0
    \/ \E key \in DOMAIN constraints : constraints[key].imm # "IntImm"

\* C2: when a ProducerConsumer is entered at nest level 0 the three sets are
\* empty, the two memory counters 0 and the thread product 1 before any node
\* of its body is visited; and inside a kernel the sets and counters are those
\* of a verifier that verifies the kernel alone.
InKernel == pc = "visit" /\ \E i \in DOMAIN stack : stack[i].kernel
JustEnteredKernel == pc = "visit" /\ stack # <<>> /\ Top.kernel /\ Top.todo = 1
Accounts(s) ==
    <<s.visited_local_buffers_, s.visited_shared_buffers_, s.visited_threads_,
      s.local_memory_per_block_, s.shared_memory_per_block_, s.thread_per_block_>>
C2_ResetAtKernelStart ==
    /\ JustEnteredKernel => Accounts(verifier) = <<{}, {}, {}, SizeZero, SizeZero, SizeOne>>
    /\ InKernel => Accounts(verifier) = Accounts(alone)
\* a second kernel is entered after a first one that declared a thread extent
C2_Witness == JustEnteredKernel /\ kernels >= 1 /\ tree.decls >= 1 /\ ~MalformedInput

\* C3: valid_ starts true and is false from the first failed check on,
\* whatever is visited later; the verdict returned is false then.
C3_StickyVerdict ==
    /\ pc = "visit" => (verifier.valid_ <=> ~failed)
    /\ pc = "returned" => (result <=> ~failed)
\* the verdict is false though the last of several kernels passed its checks
C3_Witness ==
    pc = "returned" /\ ~result /\ kernels >= 2 /\ alone.valid_ /\ ~MalformedInput

\* C4: a thread_extent annotation of threadIdx.x/y/z multiplies the thread
\* product and is checked against its limit only if its name is not yet in
\* visited_threads_; with the name already counted it changes nothing.
C4_FirstExtentOnly ==
    [][\A op \in ThreadExtentNodes(family) :
         (/\ ~IsMalformed(op)
          /\ op.node.name_hint \in ThreadTags
          /\ Len(stack') = Len(stack) + 1
          /\ stack'[Len(stack')].op = op)
         => IF op.node.name_hint \in verifier.visited_threads_
            THEN verifier' = verifier
            ELSE /\ verifier'.thread_per_block_ =
                        SizeMul(verifier.thread_per_block_, StaticCastSizeT(op.value.value))
                 /\ verifier'.visited_threads_ =
                        verifier.visited_threads_ \cup {op.node.name_hint}]_vars
\* threadIdx.x was declared 8, is declared 32 now, and the product is still 8
C4_Witness ==
    /\ pc = "visit" /\ stack # <<>> /\ Top.todo = 1
    /\ Top.op = ThreadExtent(IterVar("threadIdx.x"), IntImm(I64(32)))
    /\ verifier.visited_threads_ = {"threadIdx.x"}
    /\ verifier.thread_per_block_ = SizeOfNat(8)

\* C5: for a tree that is one producer kernel holding only thread_extent
\* annotations of distinct thread dimensions, the verdict is true exactly
\* when the product of the extents is <= max_thread_per_block and each
\* extent is <= the limit of its dimension.
OnlyDistinctThreads(k) ==
    /\ k.kernel /\ k.is_producer
    /\ k.sum.decls >= 1
    /\ k.sum.nodes = k.sum.decls
    /\ k.sum.decls = Cardinality(DOMAIN k.sum.thr)
    /\ ~MalformedInput
C5_ThreadVerdict ==
    (pc = "returned" /\ OnlyDistinctThreads(whole))
        => (result <=> ThreadsWithin(whole.sum, limits))

\* C6: for a tree that is one kernel whose allocations are all classified,
\* the thread limits being absent, the verdict is true exactly when the
\* local bytes are <= max_local_memory_per_block and the shared bytes are
\* <= max_shared_memory_per_block.
ThreadLimitNames == {"max_thread_per_block", "max_thread_x", "max_thread_y", "max_thread_z"}
OnlyClassifiedAllocations(k) ==
    /\ k.kernel
    /\ k.sum.markers = 0
    /\ k.sum.malformed = 0
    /\ k.sum.unclassified = 0
    /\ k.sum.loc + k.sum.sh > 0
C6_MemoryVerdict ==
    (/\ pc = "returned"
     /\ OnlyClassifiedAllocations(whole)
     /\ DOMAIN constraints \cap ThreadLimitNames = {}
     /\ ~MalformedInput)
        => (result <=> MemoryWithin(whole.sum, limits))

\* C7: entering an Allocate changes nothing in the verifier, and accounting
\* an Allocate whose buffer is in neither set changes nothing either.
C7_UnclassifiedAllocation ==
    [][/\ (Len(stack') = Len(stack) + 1 /\ stack'[Len(stack')].op.kind = "Allocate")
            => verifier' = verifier
       /\ (/\ pc = "visit" /\ stack # <<>> /\ Top.op.kind = "Allocate" /\ Top.todo = 0
           /\ Top.op.buffer_var \notin verifier.visited_local_buffers_
           /\ Top.op.buffer_var \notin verifier.visited_shared_buffers_)
            => verifier' = verifier]_vars
\* a kernel with an unclassified allocation of 4096 bytes is verified against
\* memory limits of 1 byte, and the verdict is true
C7_Witness ==
    /\ pc = "returned" /\ result
    /\ whole.kernel /\ whole.sum.unclassified >= 1
    /\ "max_local_memory_per_block" \in DOMAIN constraints
    /\ constraints["max_local_memory_per_block"] = IntImm(I64(1))
    /\ "max_shared_memory_per_block" \in DOMAIN constraints
    /\ constraints["max_shared_memory_per_block"] = IntImm(I64(1))

\* C8, as stated: for a tree without ProducerConsumer nodes the verdict is true.
NoMarkers == tree.markers = 0
C8_NoMarkersTrue == (pc = "returned" /\ NoMarkers /\ ~MalformedInput) => result
\* C8, amended: for a well-formed tree without ProducerConsumer nodes the
\* verdict is true exactly when the first thread_extent annotation of each of
\* threadIdx.x/y/z has an extent <= the limit of its dimension, both as
\* size_t; no other limit is checked.
FirstExtentsPass ==
    \A n \in DOMAIN tree.thr :
        SizeLeq(StaticCastSizeT(tree.thr[n]), StaticCastSizeT(limits[DimensionLimit(n)]))
C8_NoMarkersDimensionsOnly ==
    (pc = "returned" /\ NoMarkers /\ ~MalformedInput) => (result <=> FirstExtentsPass)
\* a tree without markers is verified and the verdict is false
C8_Witness == pc = "returned" /\ NoMarkers /\ ~MalformedInput /\ ~result

\* C9: a run on a malformed input (a thread_extent annotation whose node is
\* no IterVar or whose value is no IntImm, a limit that is no IntImm) ends in
\* the internal error, never in a verdict.
C9_MalformedIsFatal ==
    (pc \in {"returned", "crashed", "fatal"} /\ MalformedInput) => pc = "fatal"

\* C10: the verdict for a map equals the verdict for the map with every
\* absent limit set to INT64_MAX.
C10_AbsentIsInt64Max ==
    pc \in {"visit", "returned"} => twin.valid_ = verifier.valid_
\* a map without some limits gives the verdict false
C10_Witness ==
    pc = "returned" /\ ~result /\ DOMAIN constraints # LimitNames /\ ~MalformedInput

\* the bound a verifier compares against, by the name of its limit
LimitField(s, k) ==
    CASE k = "max_local_memory_per_block" -> s.max_local_memory_per_block_
      [] k = "max_shared_memory_per_block" -> s.max_shared_memory_per_block_
      [] k = "max_thread_per_block" -> s.max_thread_per_block_
      [] k = "max_thread_x" -> s.max_thread_x_
      [] k = "max_thread_y" -> s.max_thread_y_
      [] k = "max_thread_z" -> s.max_thread_z_

\* every entry of the map is a constant integer
ConstantLimits == \A key \in DOMAIN constraints : constraints[key].imm = "IntImm"

\* C11: for a map of constant integers, each of the six bounds the verifier
\* compares against is non-negative and equals the configured integer, or
\* INT64_MAX for an absent name; the cast to size_t makes no bound larger
\* than the configured value.
C11_BoundsAsConfigured ==
    (pc \in {"visit", "returned"} /\ ConstantLimits) =>
        \A k \in LimitNames :
            LET v == FillAbsent(constraints)[k].value
            IN  /\ limits[k] = v
                /\ MathLeq(I64(0), v)
                /\ MathLeq([neg |-> FALSE, mag |-> LimitField(verifier, k)], v)
                /\ MathLeq(v, [neg |-> FALSE, mag |-> LimitField(verifier, k)])

\* C12: a call of VerifyGPUCode that follows another call works on the state
\* a process making this call only works on, and returns its verdict.
C12_NoInterference ==
    /\ (first # "none" /\ pc \in {"visit", "returned"}) => verifier = solo
    /\ (first # "none" /\ pc = "returned") => result = solo.valid_
\* a call returned false, and the next call, on a tree with a kernel, returns true
C12_Witness ==
    /\ first = "false" /\ pc = "returned" /\ result
    /\ tree.markers >= 1 /\ ~MalformedInput

\* the step enters a ProducerConsumer at nest level 0
EntersKernel == Len(stack') = Len(stack) + 1 /\ stack'[Len(stack')].kernel

\* C13: inside a kernel no step but the entry of a new kernel decreases the
\* local counter, the shared counter or the thread product, or removes an
\* element from one of the three sets.
C13_CountersMonotone ==
    [][(InKernel /\ InKernel' /\ ~EntersKernel) =>
          /\ SizeLeq(verifier.local_memory_per_block_, verifier'.local_memory_per_block_)
          /\ SizeLeq(verifier.shared_memory_per_block_, verifier'.shared_memory_per_block_)
          /\ SizeLeq(verifier.thread_per_block_, verifier'.thread_per_block_)
          /\ verifier.visited_local_buffers_ \subseteq verifier'.visited_local_buffers_
          /\ verifier.visited_shared_buffers_ \subseteq verifier'.visited_shared_buffers_
          /\ verifier.visited_threads_ \subseteq verifier'.visited_threads_]_vars

\* the step enters a ProducerConsumer, the step leaves one
EntersProducerConsumer ==
    Len(stack') = Len(stack) + 1 /\ stack'[Len(stack')].op.kind = "ProducerConsumer"
LeavesProducerConsumer ==
    /\ pc = "visit" /\ stack # <<>> /\ Top.op.kind = "ProducerConsumer" /\ Top.todo = 0
    /\ Len(stack') = Len(stack) - 1

\* C14: a ProducerConsumer entered at a nest level > 0 resets nothing and its
\* exit checks nothing; one entered at nest level 0 resets the sets and the
\* counters, and its exit ands the three checks into valid_.
C14_OnlyNestLevelZero ==
    [][/\ (EntersProducerConsumer /\ verifier.nest_level_ > 0)
            => (Accounts(verifier') = Accounts(verifier) /\ verifier'.valid_ = verifier.valid_)
       /\ (EntersProducerConsumer /\ verifier.nest_level_ = 0)
            => Accounts(verifier') = <<{}, {}, {}, SizeZero, SizeZero, SizeOne>>
       /\ (LeavesProducerConsumer /\ ~Top.kernel)
            => (Accounts(verifier') = Accounts(verifier) /\ verifier'.valid_ = verifier.valid_)
       /\ (LeavesProducerConsumer /\ Top.kernel)
            => /\ Accounts(verifier') = Accounts(verifier)
               /\ verifier'.valid_ =
                    (/\ verifier.valid_
                     /\ SizeLeq(verifier.thread_per_block_, verifier.max_thread_per_block_)
                     /\ SizeLeq(verifier.local_memory_per_block_,
                                verifier.max_local_memory_per_block_)
                     /\ SizeLeq(verifier.shared_memory_per_block_,
                                verifier.max_shared_memory_per_block_))]_vars
\* a ProducerConsumer has been entered inside a producer that declared a
\* thread extent, and the product is still there
C14_Witness ==
    /\ pc = "visit" /\ stack # <<>>
    /\ Top.op.kind = "ProducerConsumer" /\ ~Top.kernel
    /\ verifier.nest_level_ >= 1
    /\ verifier.thread_per_block_ # SizeOne
    /\ ~MalformedInput

\* the step enters an Allocate, the step accounts one, the step enters a
\* storage_scope annotation
EntersAllocate ==
    Len(stack') = Len(stack) + 1 /\ stack'[Len(stack')].op.kind = "Allocate"
LeavesAllocate ==
    /\ pc = "visit" /\ stack # <<>> /\ Top.op.kind = "Allocate" /\ Top.todo = 0
    /\ Len(stack') = Len(stack) - 1
EntersStorageScope ==
    /\ Len(stack') = Len(stack) + 1
    /\ stack'[Len(stack')].op.kind = "AttrStmt"
    /\ stack'[Len(stack')].op.attr_key = "storage_scope"
MemoryCounters(s) == <<s.local_memory_per_block_, s.shared_memory_per_block_>>
Classified(s, op) ==
    op.buffer_var \in s.visited_local_buffers_ \cup s.visited_shared_buffers_

\* C15: an Allocate is accounted when its body has been visited, by the sets
\* as they are then: entering it changes no counter, leaving it changes a
\* counter exactly if its buffer is in a set at that moment, and a
\* storage_scope annotation changes no counter, so it never reaches an
\* allocation accounted before it.
C15_AccountedAfterBody ==
    [][/\ EntersAllocate => Accounts(verifier') = Accounts(verifier)
       /\ LeavesAllocate =>
            (Classified(verifier, Top.op) <=> MemoryCounters(verifier') # MemoryCounters(verifier))
       /\ EntersStorageScope => MemoryCounters(verifier') = MemoryCounters(verifier)]_vars
\* a kernel's only statement is an Allocate, whose body classified its buffer
\* as shared: the body is done and the allocation is about to be accounted
C15_Witness ==
    /\ pc = "visit" /\ Len(stack) = 3 /\ stack[2].kernel
    /\ Top.op.kind = "Allocate" /\ Top.todo = 0
    /\ tree.nodes = 3
    /\ Top.op.buffer_var \in verifier.visited_shared_buffers_
    /\ verifier.shared_memory_per_block_ = SizeZero

\* C16: accounting an Allocate changes at most one counter, by count * bytes:
\* the local one if the buffer is in the local set, be it in the shared set
\* too; the shared one if it is in the shared set only; nothing else changes.
C16_OneCounterPerAllocation ==
    [][LeavesAllocate =>
          LET size == SizeOfNat(Top.op.count * Top.op.bytes)
              inLocal == Top.op.buffer_var \in verifier.visited_local_buffers_
              inShared == Top.op.buffer_var \in verifier.visited_shared_buffers_
          IN  /\ verifier'.local_memory_per_block_ =
                    IF inLocal THEN SizeAdd(verifier.local_memory_per_block_, size)
                    ELSE verifier.local_memory_per_block_
              /\ verifier'.shared_memory_per_block_ =
                    IF ~inLocal /\ inShared
                    THEN SizeAdd(verifier.shared_memory_per_block_, size)
                    ELSE verifier.shared_memory_per_block_
              /\ verifier'.thread_per_block_ = verifier.thread_per_block_
              /\ verifier'.valid_ = verifier.valid_]_vars
\* a buffer classified both ways has been allocated: 4096 bytes are on the
\* local counter and none on the shared one
C16_Witness ==
    /\ InKernel
    /\ "A" \in verifier.visited_local_buffers_ \cap verifier.visited_shared_buffers_
    /\ verifier.local_memory_per_block_ = SizeOfNat(4096)
    /\ verifier.shared_memory_per_block_ = SizeZero

\* the step enters a thread_extent annotation
EntersThreadExtent ==
    /\ Len(stack') = Len(stack) + 1
    /\ stack'[Len(stack')].op.kind = "AttrStmt"
    /\ stack'[Len(stack')].op.attr_key = "thread_extent"

\* C17: a well-formed thread_extent annotation of a name other than
\* threadIdx.x/y/z and a storage_scope annotation of a scope other than local
\* and shared change nothing in the verifier, and their body is visited.
C17_OtherAnnotations ==
    [][/\ (/\ EntersThreadExtent
           /\ ~IsMalformed(stack'[Len(stack')].op)
           /\ stack'[Len(stack')].op.node.name_hint \notin ThreadTags)
            => (verifier' = verifier /\ stack'[Len(stack')].todo = 1)
       /\ (/\ EntersStorageScope
           /\ stack'[Len(stack')].op.value.value \notin {"local", "shared"})
            => (verifier' = verifier /\ stack'[Len(stack')].todo = 1)]_vars
\* inside a kernel the body of an annotation of blockIdx.x with extent 2^32
\* has been visited, and the thread product is 1
C17_Witness ==
    /\ InKernel
    /\ Top.op = ThreadExtent(IterVar("blockIdx.x"), IntImm(I64_Pow2_32))
    /\ Top.todo = 0
    /\ verifier.thread_per_block_ = SizeOne
    /\ verifier.valid_

\* C18: the traversal of a well-formed tree runs to completion: Verify, once
\* it has called Visit, returns a verdict, whatever the verdict has become on
\* the way; and it returns only when the statement it was given has no
\* statement left to visit, every statement entered having been left.
C18_RunsToCompletion ==
    /\ (pc = "visit" /\ ~MalformedInput) ~> (pc = "returned" \/ MalformedInput)
    /\ [][(pc = "visit" /\ pc' = "returned")
            => (Len(stack) = 1 /\ Top.op.kind = "Root" /\ Top.todo = 0)]_vars
\* a tree of as many statements as the bound allows, one of them failing a
\* check, has been walked to its end
C18_Witness ==
    /\ pc = "returned" /\ ~result /\ ~MalformedInput
    /\ first = "none" /\ budget = 0 /\ kernels >= 1

\* the producer markers among the first n statements of the path from the
\* root to the statement being visited
ProducersOnPath(n) ==
    Cardinality({i \in 1..n : /\ stack[i].op.kind = "ProducerConsumer"
                              /\ stack[i].op.is_producer})

\* C19: the nest level is balanced: during the traversal it is never negative
\* and is the number of producer markers on the path from the root to the
\* statement being visited, so that a marker left gives back the nest level it
\* was entered at (a marker was entered at nest level 0 exactly when no
\* producer marker encloses it); and it is 0 when the traversal has ended.
C19_NestBalanced ==
    /\ verifier.nest_level_ >= 0
    /\ pc = "visit" =>
          /\ verifier.nest_level_ = ProducersOnPath(Len(stack))
          /\ \A i \in DOMAIN stack :
                stack[i].op.kind = "ProducerConsumer" =>
                    (stack[i].kernel <=> ProducersOnPath(i - 1) = 0)
    /\ pc = "returned" => verifier.nest_level_ = 0
\* a consumer marker is visited inside two producer markers
C19_Witness ==
    /\ pc = "visit" /\ stack # <<>>
    /\ Top.op.kind = "ProducerConsumer" /\ ~Top.op.is_producer
    /\ verifier.nest_level_ = 2

\* the statement being visited is inside no ProducerConsumer
OutsideMarkers ==
    pc = "visit" /\ \A i \in DOMAIN stack : stack[i].op.kind # "ProducerConsumer"

\* C20: what is recorded outside every ProducerConsumer reaches no check at
\* the exit of one.  A step taken outside every marker changes valid_ only if
\* it is a thread_extent annotation of threadIdx.x/y/z (or one read as such
\* through a node that is no IterVar), met for the first time, whose extent
\* exceeds the limit of its dimension; a marker entered
\* from outside every marker starts with the sets empty, the memory counters 0
\* and the thread product 1 and leaves valid_ alone; and the three checks at
\* the exit of a marker entered at nest level 0 are those of a verifier that
\* has seen nothing but this marker.
C20_OutsideNeverChecked ==
    [][/\ (OutsideMarkers /\ verifier'.valid_ # verifier.valid_) =>
            /\ EntersThreadExtent
            /\ \E n \in ThreadTags \ verifier.visited_threads_ :
                 /\ verifier'.visited_threads_ = verifier.visited_threads_ \cup {n}
                 /\ IsMalformed(stack'[Len(stack')].op)
                        \/ n = stack'[Len(stack')].op.node.name_hint
                 /\ ~DimensionCheck(verifier, n,
                                    StaticCastSizeT(stack'[Len(stack')].op.value.value))
       /\ (OutsideMarkers /\ EntersProducerConsumer) =>
            /\ Accounts(verifier') = <<{}, {}, {}, SizeZero, SizeZero, SizeOne>>
            /\ verifier'.valid_ = verifier.valid_
       /\ (LeavesProducerConsumer /\ Top.kernel) =>
            (verifier'.valid_ <=> (verifier.valid_ /\ KernelChecks(alone)))]_vars
\* the first marker of a tree is entered after an allocation was added to the
\* shared counter outside every marker
C20_Witness ==
    /\ JustEnteredKernel /\ Len(stack) >= 3 /\ ~OutsideMarkers
    /\ kernels = 0 /\ tree.markers = 1 /\ tree.sh > 0
    /\ verifier.shared_memory_per_block_ = SizeZero

====
